---- MODULE Spec2Model ----
(***************************************************************************)
(* EC2 service discovery: lib/promscrape/discovery/ec2/instance.go.        *)
(*                                                                         *)
(* A Go string is a sequence of one-character strings, so that joining,    *)
(* wrapping and sanitizing are computed character by character.  A Go      *)
(* map[string]string is a function whose domain is the set of its keys.    *)
(***************************************************************************)
EXTENDS Integers, Sequences, FiniteSets, TLC

(***************************************************************************)
(* Bounds of the model.                                                    *)
(***************************************************************************)
NumCallers == 2
MaxCycles == 3
MaxPages == 2
MaxSeqPages == 3
MaxNI == 3
MaxTags == 2

Callers == 1..NumCallers

(***************************************************************************)
(* Strings.                                                                *)
(***************************************************************************)
EmptyStr == <<>>

SeqsUpTo(S, n) == UNION {[1..k -> S] : k \in 0..n}

Letters == {"a", "b", "c", "d", "e", "f", "g", "h", "i", "j", "k", "l", "m",
            "n", "o", "p", "q", "r", "s", "t", "u", "v", "w", "x", "y", "z",
            "A", "B", "C", "D", "E", "F", "G", "H", "I", "J", "K", "L", "M",
            "N", "O", "P", "Q", "R", "S", "T", "U", "V", "W", "X", "Y", "Z"}

Digits == <<"0", "1", "2", "3", "4", "5", "6", "7", "8", "9">>

DigitSet == {Digits[i] : i \in 1..10}

\* strconv.Itoa for a non-negative int
RECURSIVE Itoa(_)
Itoa(n) == IF n < 10 THEN <<Digits[n + 1]>>
           ELSE Itoa(n \div 10) \o <<Digits[(n % 10) + 1]>>

\* strings.Join(elems, sep)
RECURSIVE Join(_, _)
Join(elems, sep) ==
    IF Len(elems) = 0 THEN EmptyStr
    ELSE IF Len(elems) = 1 THEN elems[1]
    ELSE elems[1] \o sep \o Join(Tail(elems), sep)

\* discoveryutils.JoinHostPort(host, port)
JoinHostPort(host, port) == host \o <<":">> \o Itoa(port)

\* discoveryutils.SanitizeLabelName(name)
SanitizeLabelName(name) ==
    [i \in 1..Len(name) |->
        IF name[i] \in Letters \cup DigitSet \cup {"_"} THEN name[i] ELSE "_"]

(***************************************************************************)
(* Go maps.                                                                *)
(***************************************************************************)
EmptyMap == [k \in {} |-> EmptyStr]

\* m[k] = v
MapSet(m, k, v) == [x \in (DOMAIN m) \cup {k} |-> IF x = k THEN v ELSE m[x]]

\* mutant: the key itself when k is not a key
MapGetOrKey(m, k) == IF k \in DOMAIN m THEN m[k] ELSE k

\* m[k] as an rvalue: the zero value when k is not a key (also of a nil map)
MapGet(m, k) == IF k \in DOMAIN m THEN m[k] ELSE EmptyStr

(***************************************************************************)
(* Label names (instance.go:200-246).                                      *)
(***************************************************************************)
LAddress == <<"_", "_", "a", "d", "d", "r", "e", "s", "s", "_", "_">>
MetaEC2 == <<"_", "_", "m", "e", "t", "a", "_", "e", "c", "2", "_">>
LArchitecture == MetaEC2 \o <<"a", "r", "c", "h", "i", "t", "e", "c", "t", "u", "r", "e">>
LAmi == MetaEC2 \o <<"a", "m", "i">>
LAvailabilityZone == MetaEC2 \o <<"a", "v", "a", "i", "l", "a", "b", "i", "l", "i", "t", "y", "_", "z", "o", "n", "e">>
LAvailabilityZoneID == LAvailabilityZone \o <<"_", "i", "d">>
LInstanceID == MetaEC2 \o <<"i", "n", "s", "t", "a", "n", "c", "e", "_", "i", "d">>
LInstanceLifecycle == MetaEC2 \o <<"i", "n", "s", "t", "a", "n", "c", "e", "_", "l", "i", "f", "e", "c", "y", "c", "l", "e">>
LInstanceState == MetaEC2 \o <<"i", "n", "s", "t", "a", "n", "c", "e", "_", "s", "t", "a", "t", "e">>
LInstanceType == MetaEC2 \o <<"i", "n", "s", "t", "a", "n", "c", "e", "_", "t", "y", "p", "e">>
LOwnerID == MetaEC2 \o <<"o", "w", "n", "e", "r", "_", "i", "d">>
LPlatform == MetaEC2 \o <<"p", "l", "a", "t", "f", "o", "r", "m">>
LPrimarySubnetID == MetaEC2 \o <<"p", "r", "i", "m", "a", "r", "y", "_", "s", "u", "b", "n", "e", "t", "_", "i", "d">>
LPrivateDNSName == MetaEC2 \o <<"p", "r", "i", "v", "a", "t", "e", "_", "d", "n", "s", "_", "n", "a", "m", "e">>
LPrivateIP == MetaEC2 \o <<"p", "r", "i", "v", "a", "t", "e", "_", "i", "p">>
LPublicDNSName == MetaEC2 \o <<"p", "u", "b", "l", "i", "c", "_", "d", "n", "s", "_", "n", "a", "m", "e">>
LPublicIP == MetaEC2 \o <<"p", "u", "b", "l", "i", "c", "_", "i", "p">>
LVPCID == MetaEC2 \o <<"v", "p", "c", "_", "i", "d">>
LSubnetID == MetaEC2 \o <<"s", "u", "b", "n", "e", "t", "_", "i", "d">>
LIPv6Addresses == MetaEC2 \o <<"i", "p", "v", "6", "_", "a", "d", "d", "r", "e", "s", "s", "e", "s">>
LTagPrefix == MetaEC2 \o <<"t", "a", "g", "_">>

(***************************************************************************)
(* Instance.appendTargetLabels (instance.go:193-250).                      *)
(***************************************************************************)

\* the map literal of lines 199-217
FixedLabels(inst, ownerID, port, azMap) ==
    LET addr == JoinHostPort(inst.PrivateIPAddress, port) IN
    [n \in {LAddress, LArchitecture, LAmi, LAvailabilityZone, LAvailabilityZoneID,
            LInstanceID, LInstanceLifecycle, LInstanceState, LInstanceType,
            LOwnerID, LPlatform, LPrimarySubnetID, LPrivateDNSName, LPrivateIP,
            LPublicDNSName, LPublicIP, LVPCID} |->
        CASE n = LAddress -> addr
          [] n = LArchitecture -> inst.Architecture
          [] n = LAmi -> inst.ImageID
          [] n = LAvailabilityZone -> inst.Placement.AvailabilityZone
          [] n = LAvailabilityZoneID -> MapGet(azMap, inst.Placement.AvailabilityZone)
          [] n = LInstanceID -> inst.ID
          [] n = LInstanceLifecycle -> inst.Lifecycle
          [] n = LInstanceState -> inst.State.Name
          [] n = LInstanceType -> inst.Type
          [] n = LOwnerID -> ownerID
          [] n = LPlatform -> inst.Platform
          [] n = LPrimarySubnetID -> inst.SubnetID
          [] n = LPrivateDNSName -> inst.PrivateDNSName
          [] n = LPrivateIP -> inst.PrivateIPAddress
          [] n = LPublicDNSName -> inst.PublicDNSName
          [] n = LPublicIP -> inst.PublicIPAddress
          [] n = LVPCID -> inst.VPCID]

\* mutant: the addresses are collected only at a subnet's first occurrence
NetworkInterfaceStepFirstOnly(acc, ni) ==
    IF Len(ni.SubnetID) = 0 \/ ni.SubnetID \in acc.seenSubnets THEN acc
    ELSE [subnets |-> Append(acc.subnets, ni.SubnetID),
          seenSubnets |-> acc.seenSubnets \cup {ni.SubnetID},
          ipv6Addrs |-> acc.ipv6Addrs \o ni.IPv6AddressesSet.Items]

\* mutant: no de-duplication of the subnet ids
NetworkInterfaceStepNoDedup(acc, ni) ==
    IF Len(ni.SubnetID) = 0 THEN acc
    ELSE [subnets |-> Append(acc.subnets, ni.SubnetID),
          seenSubnets |-> acc.seenSubnets \cup {ni.SubnetID},
          ipv6Addrs |-> acc.ipv6Addrs \o ni.IPv6AddressesSet.Items]

\* one iteration of the loop of lines 222-233 on the loop's locals
NetworkInterfaceStep(acc, ni) ==
    IF Len(ni.SubnetID) = 0 THEN acc
    ELSE [subnets |-> IF ni.SubnetID \in acc.seenSubnets
                      THEN acc.subnets
                      ELSE Append(acc.subnets, ni.SubnetID),
          seenSubnets |-> acc.seenSubnets \cup {ni.SubnetID},
          ipv6Addrs |-> acc.ipv6Addrs \o ni.IPv6AddressesSet.Items]

\* the loop of lines 222-233, from its i-th item on
RECURSIVE NetworkInterfacesLoop(_, _, _)
NetworkInterfacesLoop(items, i, acc) ==
    IF i > Len(items) THEN acc
    ELSE NetworkInterfacesLoop(items, i + 1, NetworkInterfaceStep(acc, items[i]))

\* mutant: the subnet-id label is left out when there is no subnet id
VPCLabelsNoEmpty(m, inst) ==
    IF Len(inst.VPCID) > 0
    THEN LET acc == NetworkInterfacesLoop(inst.NetworkInterfaceSet.Items, 1,
                        [subnets |-> <<>>, seenSubnets |-> {}, ipv6Addrs |-> <<>>])
             m1 == IF Len(acc.subnets) > 0
                   THEN MapSet(m, LSubnetID,
                               <<",">> \o Join(acc.subnets, <<",">>) \o <<",">>)
                   ELSE m
         IN  IF Len(acc.ipv6Addrs) > 0
             THEN MapSet(m1, LIPv6Addresses,
                         <<",">> \o Join(acc.ipv6Addrs, <<",">>) \o <<",">>)
             ELSE m1
    ELSE m

\* lines 218-240
VPCLabels(m, inst) ==
    IF Len(inst.VPCID) > 0
    THEN LET acc == NetworkInterfacesLoop(inst.NetworkInterfaceSet.Items, 1,
                        [subnets |-> <<>>, seenSubnets |-> {}, ipv6Addrs |-> <<>>])
             m1 == MapSet(m, LSubnetID, <<",">> \o Join(acc.subnets, <<",">>) \o <<",">>)
         IN  IF Len(acc.ipv6Addrs) > 0
             THEN MapSet(m1, LIPv6Addresses,
                         <<",">> \o Join(acc.ipv6Addrs, <<",">>) \o <<",">>)
             ELSE m1
    ELSE m

\* mutant: a label that exists is not overwritten
TagStepKeepFirst(m, t) ==
    IF Len(t.Key) = 0 \/ Len(t.Value) = 0 THEN m
    ELSE IF LTagPrefix \o SanitizeLabelName(t.Key) \in DOMAIN m THEN m
    ELSE MapSet(m, LTagPrefix \o SanitizeLabelName(t.Key), t.Value)

\* mutant: the label name lacks the tag_ part of the prefix
TagStepNoTagPrefix(m, t) ==
    IF Len(t.Key) = 0 \/ Len(t.Value) = 0 THEN m
    ELSE MapSet(m, MetaEC2 \o SanitizeLabelName(t.Key), t.Value)

\* one iteration of the loop of lines 241-247
TagStep(m, t) ==
    IF Len(t.Key) = 0 \/ Len(t.Value) = 0 THEN m
    ELSE MapSet(m, LTagPrefix \o SanitizeLabelName(t.Key), t.Value)

\* the loop of lines 241-247, from its i-th item on
RECURSIVE TagLabels(_, _, _)
TagLabels(m, items, i) ==
    IF i > Len(items) THEN m
    ELSE TagLabels(TagStep(m, items[i]), items, i + 1)

\* mutant: no check of the private IP
appendTargetLabelsNoSkip(ms, inst, ownerID, port, azMap) ==
    Append(ms, TagLabels(VPCLabels(FixedLabels(inst, ownerID, port, azMap), inst),
                         inst.TagSet.Items, 1))

appendTargetLabels(ms, inst, ownerID, port, azMap) ==
    IF Len(inst.PrivateIPAddress) = 0 THEN ms
    ELSE Append(ms, TagLabels(VPCLabels(FixedLabels(inst, ownerID, port, azMap), inst),
                              inst.TagSet.Items, 1))

(***************************************************************************)
(* The records of lines 49-126 and 169-183.                                *)
(***************************************************************************)
Inst(ip, az, vpc, nis, tags) ==
    [PrivateIPAddress |-> ip,
     Architecture |-> <<"x", "8", "6">>,
     Placement |-> [AvailabilityZone |-> az],
     ImageID |-> <<"a", "m", "i">>,
     ID |-> <<"i", "-", "1">>,
     Lifecycle |-> EmptyStr,
     State |-> [Name |-> <<"u", "p">>],
     Type |-> <<"t", "2">>,
     Platform |-> EmptyStr,
     SubnetID |-> <<"s", "0">>,
     PrivateDNSName |-> <<"h", ".", "i">>,
     PublicDNSName |-> EmptyStr,
     PublicIPAddress |-> EmptyStr,
     VPCID |-> vpc,
     NetworkInterfaceSet |-> [Items |-> nis],
     TagSet |-> [Items |-> tags]]

NetworkInterface(subnet, ipv6) ==
    [SubnetID |-> subnet, IPv6AddressesSet |-> [Items |-> ipv6]]

Tag(k, v) == [Key |-> k, Value |-> v]

Reservation(owner, insts) == [OwnerID |-> owner, InstanceSet |-> [Items |-> insts]]

AvailabilityZone(name, id) == [ZoneName |-> name, ZoneID |-> id]

InstancesResponse(items, token) ==
    [ReservationSet |-> [Items |-> items], NextPageToken |-> token]

(***************************************************************************)
(* The provider: what getEC2APIResponse can return.  A reply is a          *)
(* transport error or a payload; a payload is malformed or a document.     *)
(***************************************************************************)
IP1 == <<"1", "0", ".", "1">>
IP2 == <<"1", "0", ".", "2">>
VPC1 == <<"v", "1">>
ZoneA == <<"z", "a">>
ZoneB == <<"z", "b">>
ZoneIDA == <<"i", "d", "a">>
ZoneIDB == <<"i", "d", "b">>
ZoneIDC == <<"i", "d", "c">>
Subnet1 == <<"s", "1">>
Subnet2 == <<"s", "2">>
Addr6A == <<":", ":", "a">>
Addr6B == <<":", ":", "b">>
Tok1 == <<"t", "1">>
Tok2 == <<"t", "2">>
Owner1 == <<"o", "1">>
Owner2 == <<"o", "2">>

InstA == Inst(IP1, ZoneA, VPC1, <<NetworkInterface(Subnet1, <<Addr6A>>)>>,
              <<Tag(<<"k">>, <<"v">>)>>)
InstB == Inst(EmptyStr, ZoneA, VPC1, <<>>, <<>>)
InstC == Inst(IP2, ZoneB, EmptyStr, <<>>, <<>>)

Res1 == Reservation(Owner1, <<InstA, InstB>>)
Res2 == Reservation(Owner2, <<InstC>>)
Res3 == Reservation(Owner2, <<InstB, InstA>>)

TransportError(kind) == [err |-> TRUE, kind |-> kind, wellFormed |-> FALSE, doc |-> <<>>]
Malformed(kind) == [err |-> FALSE, kind |-> kind, wellFormed |-> FALSE, doc |-> <<>>]
Payload(kind, doc) == [err |-> FALSE, kind |-> kind, wellFormed |-> TRUE, doc |-> doc]

InstancesPayloads(contents, tokens) ==
    {Payload("instances", [reservationSet |-> items, nextToken |-> tok]) :
        items \in contents, tok \in tokens}

Failures(kind) == {TransportError(kind), Malformed(kind)}

\* a reply after which getReservations issues no further request
EndsPagination(reply) ==
    IF reply.err \/ ~reply.wellFormed THEN TRUE ELSE Len(reply.doc.nextToken) = 0

\* the replies to DescribeInstances of the concurrent specification
LeanReplies ==
    Failures("instances") \cup InstancesPayloads({<<Res1, Res2>>}, {EmptyStr, Tok1})

\* the replies to DescribeInstances of the fair specification
FairReplies ==
    {TransportError("instances")} \cup InstancesPayloads({<<Res2>>}, {EmptyStr, Tok1})

\* the replies to DescribeInstances of the sequential specification
RichReplies ==
    Failures("instances")
    \cup InstancesPayloads({<<>>, <<Res1>>, <<Res2, Res3>>}, {EmptyStr, Tok1, Tok2})

ZonesPayloads(contents, tokens) ==
    {Payload("zones", [availabilityZoneInfo |-> zs, nextToken |-> tok]) :
        zs \in contents, tok \in tokens}

\* the replies to DescribeAvailabilityZones of the concurrent specification
LeanZoneReplies ==
    Failures("zones")
    \cup ZonesPayloads({<<AvailabilityZone(ZoneA, ZoneIDA)>>,
                        <<AvailabilityZone(ZoneA, ZoneIDA), AvailabilityZone(ZoneB, ZoneIDB)>>},
                       {EmptyStr})

\* the replies to DescribeAvailabilityZones of the fair specification
FairZoneReplies ==
    {TransportError("zones")}
    \cup ZonesPayloads({<<AvailabilityZone(ZoneA, ZoneIDA)>>}, {EmptyStr})

\* the replies to DescribeAvailabilityZones of the sequential specification
RichZoneReplies ==
    Failures("zones")
    \cup ZonesPayloads({<<>>,
                        <<AvailabilityZone(ZoneA, ZoneIDA)>>,
                        <<AvailabilityZone(ZoneA, ZoneIDA), AvailabilityZone(ZoneB, ZoneIDB)>>,
                        <<AvailabilityZone(ZoneA, ZoneIDA), AvailabilityZone(ZoneA, ZoneIDC)>>},
                       {EmptyStr, Tok1})

\* the values of cfg.port: of the direct calls, and of the shared config
Ports == {80, 9100}

SystemPorts == {9100}

(***************************************************************************)
(* Parsing (lines 128-134 and 185-191): xml.Unmarshal fails on a malformed *)
(* payload and otherwise fills the fields the struct tags name.            *)
(***************************************************************************)
parseInstancesResponse(data) ==
    IF data.wellFormed
    THEN [err |-> FALSE,
          v |-> InstancesResponse(data.doc.reservationSet, data.doc.nextToken)]
    ELSE [err |-> TRUE, v |-> InstancesResponse(<<>>, EmptyStr)]

parseAvailabilityZonesResponse(data) ==
    IF data.wellFormed
    THEN [err |-> FALSE,
          v |-> [AvailabilityZoneInfo |-> [Items |-> data.doc.availabilityZoneInfo]]]
    ELSE [err |-> TRUE, v |-> [AvailabilityZoneInfo |-> [Items |-> <<>>]]]

(***************************************************************************)
(* getReservations (lines 28-47): the body of the loop on one reply.       *)
(***************************************************************************)
NoError == "nil"

\* mutant: a failed page returns the error with the reservations read so far
ReservationsStepPartial(rsAcc, reply) ==
    IF reply.err
    THEN [state |-> "error", rs |-> rsAcc, err |-> "cannot obtain instances",
          pageToken |-> EmptyStr]
    ELSE LET ir == parseInstancesResponse(reply) IN
         IF ir.err
         THEN [state |-> "error", rs |-> rsAcc, err |-> "cannot parse instance list",
               pageToken |-> EmptyStr]
         ELSE [state |-> IF Len(ir.v.NextPageToken) = 0 THEN "return" ELSE "loop",
               rs |-> rsAcc \o ir.v.ReservationSet.Items,
               err |-> NoError,
               pageToken |-> ir.v.NextPageToken]

\* mutant: each page's reservations are put before those of the earlier pages
ReservationsStepPrepend(rsAcc, reply) ==
    IF reply.err
    THEN [state |-> "error", rs |-> <<>>, err |-> "cannot obtain instances",
          pageToken |-> EmptyStr]
    ELSE LET ir == parseInstancesResponse(reply) IN
         IF ir.err
         THEN [state |-> "error", rs |-> <<>>, err |-> "cannot parse instance list",
               pageToken |-> EmptyStr]
         ELSE [state |-> IF Len(ir.v.NextPageToken) = 0 THEN "return" ELSE "loop",
               rs |-> ir.v.ReservationSet.Items \o rsAcc,
               err |-> NoError,
               pageToken |-> ir.v.NextPageToken]

\* mutant: the next-token of the response is not kept for the next request
ReservationsStepDropToken(rsAcc, reply) ==
    IF reply.err
    THEN [state |-> "error", rs |-> <<>>, err |-> "cannot obtain instances",
          pageToken |-> EmptyStr]
    ELSE LET ir == parseInstancesResponse(reply) IN
         IF ir.err
         THEN [state |-> "error", rs |-> <<>>, err |-> "cannot parse instance list",
               pageToken |-> EmptyStr]
         ELSE [state |-> IF Len(ir.v.NextPageToken) = 0 THEN "return" ELSE "loop",
               rs |-> rsAcc \o ir.v.ReservationSet.Items,
               err |-> NoError,
               pageToken |-> EmptyStr]

ReservationsStep(rsAcc, reply) ==
    IF reply.err
    THEN [state |-> "error", rs |-> <<>>, err |-> "cannot obtain instances",
          pageToken |-> EmptyStr]
    ELSE LET ir == parseInstancesResponse(reply) IN
         IF ir.err
         THEN [state |-> "error", rs |-> <<>>, err |-> "cannot parse instance list",
               pageToken |-> EmptyStr]
         ELSE [state |-> IF Len(ir.v.NextPageToken) = 0 THEN "return" ELSE "loop",
               rs |-> rsAcc \o ir.v.ReservationSet.Items,
               err |-> NoError,
               pageToken |-> ir.v.NextPageToken]

(***************************************************************************)
(* getAvailabilityZones (lines 156-167) and getAZMap (lines 136-154).      *)
(***************************************************************************)
\* mutant: a response that carries a continuation token is refused
getAvailabilityZonesRefuseToken(reply) ==
    IF reply.err
    THEN [azs |-> <<>>, err |-> "cannot obtain availability zones"]
    ELSE LET azr == parseAvailabilityZonesResponse(reply) IN
         IF azr.err
         THEN [azs |-> <<>>, err |-> "cannot parse availability zones list"]
         ELSE IF reply.doc.nextToken # EmptyStr
         THEN [azs |-> <<>>, err |-> "unexpected continuation token"]
         ELSE [azs |-> azr.v.AvailabilityZoneInfo.Items, err |-> NoError]

\* lines 156-167: one request, its reply parsed
getAvailabilityZones(reply) ==
    IF reply.err
    THEN [azs |-> <<>>, err |-> "cannot obtain availability zones"]
    ELSE LET azr == parseAvailabilityZonesResponse(reply) IN
         IF azr.err
         THEN [azs |-> <<>>, err |-> "cannot parse availability zones list"]
         ELSE [azs |-> azr.v.AvailabilityZoneInfo.Items, err |-> NoError]

\* the loop of lines 150-152, from its i-th item on
RECURSIVE FillAZMap(_, _, _)
FillAZMap(m, azs, i) ==
    IF i > Len(azs) THEN m
    ELSE FillAZMap(MapSet(m, azs[i].ZoneName, azs[i].ZoneID), azs, i + 1)

NilAZMap == [isNil |-> TRUE, m |-> EmptyMap]

\* mutant: a failed fetch leaves cfg.azMap nil
PopulateAZMapRetry(res) ==
    [isNil |-> res.err # NoError,
     m |-> IF res.err # NoError THEN EmptyMap ELSE FillAZMap(EmptyMap, res.azs, 1)]

\* mutant: the mapping is returned but not stored in the config
PopulateAZMapNoStore(res) ==
    [isNil |-> TRUE,
     m |-> IF res.err # NoError THEN EmptyMap ELSE FillAZMap(EmptyMap, res.azs, 1)]

\* cfg.azMap after lines 144-153
PopulateAZMap(res) ==
    [isNil |-> FALSE,
     m |-> IF res.err # NoError THEN EmptyMap ELSE FillAZMap(EmptyMap, res.azs, 1)]

\* mutant: Lock never blocks
CanLockAlways(lock) == TRUE

\* sync.Mutex: Lock returns only when the mutex is unlocked
CanLock(lock) == lock = 0

(***************************************************************************)
(* getInstancesLabels (lines 13-26).                                       *)
(***************************************************************************)
\* the inner loop of lines 21-23, from its j-th item on
RECURSIVE InstancesLoop(_, _, _, _, _, _)
InstancesLoop(ms, items, j, ownerID, port, azMap) ==
    IF j > Len(items) THEN ms
    ELSE InstancesLoop(appendTargetLabels(ms, items[j], ownerID, port, azMap),
                       items, j + 1, ownerID, port, azMap)

\* mutant: every instance gets the owner id of the first reservation
RECURSIVE ReservationsLoopFirstOwner(_, _, _, _, _)
ReservationsLoopFirstOwner(ms, rsv, i, port, azMap) ==
    IF i > Len(rsv) THEN ms
    ELSE ReservationsLoopFirstOwner(
             InstancesLoop(ms, rsv[i].InstanceSet.Items, 1, rsv[1].OwnerID, port, azMap),
             rsv, i + 1, port, azMap)

\* the outer loop of lines 20-24, from its i-th item on
RECURSIVE ReservationsLoop(_, _, _, _, _)
ReservationsLoop(ms, rsv, i, port, azMap) ==
    IF i > Len(rsv) THEN ms
    ELSE ReservationsLoop(
             InstancesLoop(ms, rsv[i].InstanceSet.Items, 1, rsv[i].OwnerID, port, azMap),
             rsv, i + 1, port, azMap)

\* lines 15-17: what getInstancesLabels returns when getReservations fails
ErrorResult(rsv, err) == [ms |-> <<>>, err |-> err]

\* mutant: an empty zone mapping is returned as an error
LabelsResultStrict(rsv, port, azMap) ==
    IF azMap = EmptyMap
    THEN [ms |-> <<>>, err |-> "cannot obtain availability zones"]
    ELSE [ms |-> ReservationsLoop(<<>>, rsv, 1, port, azMap), err |-> NoError]

\* lines 19-25: what getInstancesLabels returns otherwise
LabelsResult(rsv, port, azMap) ==
    [ms |-> ReservationsLoop(<<>>, rsv, 1, port, azMap), err |-> NoError]

NoResult == [ms |-> <<>>, err |-> NoError]

NoRequest == [Action |-> "", NextToken |-> EmptyStr]

(***************************************************************************)
(* State.                                                                  *)
(*   port, azMap, azMapLock   the fields of the shared apiConfig           *)
(*   pc, pageToken, rs, azLocal, result                                    *)
(*                            each caller's position in getInstancesLabels,*)
(*                            its locals and what the call returned        *)
(*   request                  the request a caller is waiting on           *)
(*   served, nreq             per call: the well-formed pages the provider *)
(*                            has delivered, and the DescribeInstances     *)
(*                            requests issued                              *)
(*   azRequests, warnings     DescribeAvailabilityZones requests issued    *)
(*                            and logger.Warnf calls, per config           *)
(*   cycles                   getInstancesLabels calls started             *)
(*   lb                       arguments and result of one direct call of   *)
(*                            appendTargetLabels                           *)
(***************************************************************************)
VARIABLES port, azMap, azMapLock, pc, pageToken, rs, azLocal, result, request,
          served, nreq, azRequests, zonesServed, warnings, cycles, lb

vars == <<port, azMap, azMapLock, pc, pageToken, rs, azLocal, result, request,
          served, nreq, azRequests, zonesServed, warnings, cycles, lb>>

cfgVars == <<port, azMap, azMapLock, azRequests, zonesServed, warnings>>

NoCall == [phase |-> "none", inst |-> InstB, ownerID |-> EmptyStr,
           azMap |-> EmptyMap, ms |-> <<>>]

ConfigInit ==
    /\ azMap = NilAZMap
    /\ azMapLock = 0
    /\ pc = [c \in Callers |-> "idle"]
    /\ pageToken = [c \in Callers |-> EmptyStr]
    /\ rs = [c \in Callers |-> <<>>]
    /\ azLocal = [c \in Callers |-> EmptyMap]
    /\ result = [c \in Callers |-> NoResult]
    /\ request = [c \in Callers |-> NoRequest]
    /\ served = [c \in Callers |-> <<>>]
    /\ nreq = [c \in Callers |-> 0]
    /\ azRequests = 0
    /\ zonesServed = <<>>
    /\ warnings = 0
    /\ cycles = 0

Init == ConfigInit /\ port \in SystemPorts /\ lb = NoCall

(***************************************************************************)
(* getInstancesLabels, one action per step of a caller.                    *)
(***************************************************************************)

\* a caller enters getInstancesLabels (line 13) and getReservations (line 30)
StartCycle(c) ==
    /\ pc[c] \in {"idle", "done"}
    /\ cycles < MaxCycles
    /\ cycles' = cycles + 1
    /\ pc' = [pc EXCEPT ![c] = "getReservations"]
    /\ pageToken' = [pageToken EXCEPT ![c] = EmptyStr]
    /\ rs' = [rs EXCEPT ![c] = <<>>]
    /\ azLocal' = [azLocal EXCEPT ![c] = EmptyMap]
    /\ result' = [result EXCEPT ![c] = NoResult]
    /\ served' = [served EXCEPT ![c] = <<>>]
    /\ nreq' = [nreq EXCEPT ![c] = 0]
    /\ UNCHANGED <<cfgVars, request, lb>>

\* line 33: the request of one page is issued
RequestInstances(c) ==
    /\ pc[c] = "getReservations"
    /\ request' = [request EXCEPT ![c] =
                      [Action |-> "DescribeInstances", NextToken |-> pageToken[c]]]
    /\ nreq' = [nreq EXCEPT ![c] = @ + 1]
    /\ pc' = [pc EXCEPT ![c] = "awaitInstances"]
    /\ UNCHANGED <<cfgVars, pageToken, rs, azLocal, result, served, cycles, lb>>

\* mutant: getAZMap is called before the error of getReservations is looked at
InstancesReplyEager(c, replies, maxPages) ==
    /\ pc[c] = "awaitInstances"
    /\ \E reply \in replies :
         /\ nreq[c] >= maxPages => EndsPagination(reply)
         /\ LET step == ReservationsStep(rs[c], reply) IN
            /\ rs' = [rs EXCEPT ![c] = step.rs]
            /\ pageToken' = [pageToken EXCEPT ![c] =
                                IF step.state = "loop" THEN step.pageToken ELSE @]
            /\ served' = [served EXCEPT ![c] =
                             IF reply.err \/ ~reply.wellFormed THEN @
                             ELSE Append(@, InstancesResponse(reply.doc.reservationSet,
                                                              reply.doc.nextToken))]
            /\ result' = [result EXCEPT ![c] =
                             IF step.state = "error" THEN ErrorResult(step.rs, step.err)
                             ELSE @]
            /\ pc' = [pc EXCEPT ![c] =
                         CASE step.state = "error" -> "lockAZ"
                           [] step.state = "loop" -> "getReservations"
                           [] step.state = "return" -> "lockAZ"]
    /\ request' = [request EXCEPT ![c] = NoRequest]
    /\ UNCHANGED <<cfgVars, azLocal, nreq, cycles, lb>>

\* lines 33-45, and lines 14-18 when getReservations returns: the reply arrives
InstancesReply(c, replies, maxPages) ==
    /\ pc[c] = "awaitInstances"
    /\ \E reply \in replies :
         /\ nreq[c] >= maxPages => EndsPagination(reply)
         /\ LET step == ReservationsStep(rs[c], reply) IN
            /\ rs' = [rs EXCEPT ![c] = step.rs]
            /\ pageToken' = [pageToken EXCEPT ![c] =
                                IF step.state = "loop" THEN step.pageToken ELSE @]
            /\ served' = [served EXCEPT ![c] =
                             IF reply.err \/ ~reply.wellFormed THEN @
                             ELSE Append(@, InstancesResponse(reply.doc.reservationSet,
                                                              reply.doc.nextToken))]
            /\ result' = [result EXCEPT ![c] =
                             IF step.state = "error" THEN ErrorResult(step.rs, step.err)
                             ELSE @]
            /\ pc' = [pc EXCEPT ![c] =
                         CASE step.state = "error" -> "done"
                           [] step.state = "loop" -> "getReservations"
                           [] step.state = "return" -> "lockAZ"]
    /\ request' = [request EXCEPT ![c] = NoRequest]
    /\ UNCHANGED <<cfgVars, azLocal, nreq, cycles, lb>>

\* line 137
Lock(c) ==
    /\ pc[c] = "lockAZ"
    /\ CanLock(azMapLock)
    /\ azMapLock' = c
    /\ pc' = [pc EXCEPT ![c] = "checkAZ"]
    /\ UNCHANGED <<port, azMap, azRequests, zonesServed, warnings, pageToken, rs,
                   azLocal, result, request, served, nreq, cycles, lb>>

\* mutant: the cache-hit path returns without Unlock
CacheHitNoUnlock(c) ==
    /\ pc[c] = "checkAZ"
    /\ ~azMap.isNil
    /\ azLocal' = [azLocal EXCEPT ![c] = azMap.m]
    /\ pc' = [pc EXCEPT ![c] = "buildLabels"]
    /\ UNCHANGED <<port, azMap, azMapLock, azRequests, zonesServed, warnings,
                   pageToken, rs, result, request, served, nreq, cycles, lb>>

\* lines 140-142, and the deferred Unlock of line 138
CacheHit(c) ==
    /\ pc[c] = "checkAZ"
    /\ ~azMap.isNil
    /\ azLocal' = [azLocal EXCEPT ![c] = azMap.m]
    /\ azMapLock' = 0
    /\ pc' = [pc EXCEPT ![c] = "buildLabels"]
    /\ UNCHANGED <<port, azMap, azRequests, zonesServed, warnings, pageToken, rs,
                   result, request, served, nreq, cycles, lb>>

\* lines 140, 144 and 158: the zone-list request is issued
RequestZones(c) ==
    /\ pc[c] = "checkAZ"
    /\ azMap.isNil
    /\ request' = [request EXCEPT ![c] =
                      [Action |-> "DescribeAvailabilityZones", NextToken |-> EmptyStr]]
    /\ azRequests' = azRequests + 1
    /\ pc' = [pc EXCEPT ![c] = "awaitZones"]
    /\ UNCHANGED <<port, azMap, azMapLock, zonesServed, warnings, pageToken, rs,
                   azLocal, result, served, nreq, cycles, lb>>

\* mutant: the populate path returns without Unlock
ZonesReplyHoldLock(c, replies) ==
    /\ pc[c] = "awaitZones"
    /\ \E reply \in replies :
         LET res == getAvailabilityZones(reply)
             new == PopulateAZMap(res)
         IN  /\ azMap' = new
             /\ warnings' = IF res.err # NoError THEN warnings + 1 ELSE warnings
             /\ azLocal' = [azLocal EXCEPT ![c] = new.m]
             /\ zonesServed' = IF reply.err \/ ~reply.wellFormed THEN zonesServed
                               ELSE Append(zonesServed,
                                           [zones |-> reply.doc.availabilityZoneInfo,
                                            nextToken |-> reply.doc.nextToken])
    /\ request' = [request EXCEPT ![c] = NoRequest]
    /\ pc' = [pc EXCEPT ![c] = "buildLabels"]
    /\ UNCHANGED <<port, azMapLock, azRequests, pageToken, rs, result, served, nreq,
                   cycles, lb>>

\* lines 158-166 and 144-153, and the deferred Unlock of line 138
ZonesReply(c, replies) ==
    /\ pc[c] = "awaitZones"
    /\ \E reply \in replies :
         LET res == getAvailabilityZones(reply)
             new == PopulateAZMap(res)
         IN  /\ azMap' = new
             /\ warnings' = IF res.err # NoError THEN warnings + 1 ELSE warnings
             /\ azLocal' = [azLocal EXCEPT ![c] = new.m]
             /\ zonesServed' = IF reply.err \/ ~reply.wellFormed THEN zonesServed
                               ELSE Append(zonesServed,
                                           [zones |-> reply.doc.availabilityZoneInfo,
                                            nextToken |-> reply.doc.nextToken])
    /\ azMapLock' = 0
    /\ request' = [request EXCEPT ![c] = NoRequest]
    /\ pc' = [pc EXCEPT ![c] = "buildLabels"]
    /\ UNCHANGED <<port, azRequests, pageToken, rs, result, served, nreq, cycles, lb>>

\* lines 19-25
BuildLabels(c) ==
    /\ pc[c] = "buildLabels"
    /\ result' = [result EXCEPT ![c] = LabelsResult(rs[c], port, azLocal[c])]
    /\ pc' = [pc EXCEPT ![c] = "done"]
    /\ UNCHANGED <<cfgVars, pageToken, rs, azLocal, request, served, nreq, cycles, lb>>

(***************************************************************************)
(* Spec: NumCallers callers share one config.                              *)
(***************************************************************************)
Next ==
    \E c \in Callers :
        \/ StartCycle(c)
        \/ RequestInstances(c)
        \/ InstancesReply(c, LeanReplies, MaxPages)
        \/ Lock(c)
        \/ CacheHit(c)
        \/ RequestZones(c)
        \/ ZonesReply(c, LeanZoneReplies)
        \/ BuildLabels(c)

Spec == Init /\ [][Next]_vars

(***************************************************************************)
(* SpecFair: the callers of Spec on a provider with one page content, one  *)
(* zone list and one failure, with the scheduling of getAZMap.  A caller   *)
(* that holds the lock takes its next step (lines 140-153) and the         *)
(* zone-list request gets its reply; sync.Mutex hands the lock to a caller *)
(* that keeps waiting for it, however often others take and release it     *)
(* meanwhile.                                                              *)
(***************************************************************************)
NextFair ==
    \E c \in Callers :
        \/ StartCycle(c)
        \/ RequestInstances(c)
        \/ InstancesReply(c, FairReplies, MaxPages)
        \/ Lock(c)
        \/ CacheHit(c)
        \/ RequestZones(c)
        \/ ZonesReply(c, FairZoneReplies)
        \/ BuildLabels(c)

Fairness ==
    \A c \in Callers :
        /\ SF_vars(Lock(c))
        /\ WF_vars(CacheHit(c))
        /\ WF_vars(RequestZones(c))
        /\ WF_vars(ZonesReply(c, FairZoneReplies))

SpecFair == Init /\ [][NextFair]_vars /\ Fairness

(***************************************************************************)
(* SpecSeq: one caller, on a provider with more pages and contents.        *)
(***************************************************************************)
NextSeq ==
    \/ StartCycle(1)
    \/ RequestInstances(1)
    \/ InstancesReply(1, RichReplies, MaxSeqPages)
    \/ Lock(1)
    \/ CacheHit(1)
    \/ RequestZones(1)
    \/ ZonesReply(1, RichZoneReplies)
    \/ BuildLabels(1)

InitSeq == ConfigInit /\ port \in Ports /\ lb = NoCall

SpecSeq == InitSeq /\ [][NextSeq]_vars

(***************************************************************************)
(* SpecLabels: appendTargetLabels applied to one instance.                 *)
(***************************************************************************)
NetworkInterfacePool ==
    {NetworkInterface(sn, a6) :
        sn \in {EmptyStr, Subnet1, Subnet2},
        a6 \in {<<>>, <<Addr6A, Addr6B>>}}

TagPool ==
    {Tag(k, v) : k \in {EmptyStr, <<"a", "-", "b">>, <<"a", ".", "b">>},
                 v \in {EmptyStr, <<"v">>, <<"w">>}}

\* tag keys that are the names of fixed labels without the __meta_ec2_ prefix
FixedLabelSuffixes ==
    {<<"v", "p", "c", "_", "i", "d">>,
     <<"p", "r", "i", "v", "a", "t", "e", "_", "i", "p">>,
     <<"s", "u", "b", "n", "e", "t", "_", "i", "d">>}

ZoneAOnly == FillAZMap(EmptyMap, <<AvailabilityZone(ZoneA, ZoneIDA)>>, 1)

Call(inst, azm) ==
    [phase |-> "call", inst |-> inst, ownerID |-> Owner1, azMap |-> azm, ms |-> <<>>]

\* the calls that vary the network interfaces, the tags, and the scalars
LabelCalls(maxNI, maxTags) ==
    {Call(Inst(IP1, ZoneA, vpc, nis, <<>>), ZoneAOnly) :
        vpc \in {EmptyStr, VPC1}, nis \in SeqsUpTo(NetworkInterfacePool, maxNI)}
    \cup
    {Call(Inst(IP1, ZoneA, VPC1, <<NetworkInterface(Subnet1, <<Addr6A>>)>>, tags), ZoneAOnly) :
        tags \in SeqsUpTo(TagPool, maxTags)}
    \cup
    {Call(Inst(ip, az, vpc, <<NetworkInterface(EmptyStr, <<Addr6B>>)>>,
               <<Tag(<<"k">>, <<"v">>)>>), azm) :
        ip \in {EmptyStr, IP1, IP2}, az \in {EmptyStr, ZoneA, ZoneB},
        vpc \in {EmptyStr, VPC1}, azm \in {EmptyMap, ZoneAOnly}}
    \cup
    {Call(Inst(IP1, ZoneA, vpc, <<>>, <<Tag(k, <<"w">>)>>), ZoneAOnly) :
        vpc \in {EmptyStr, VPC1}, k \in FixedLabelSuffixes}

InitLabels == ConfigInit /\ port \in Ports /\ lb \in LabelCalls(MaxNI, MaxTags)

CallAppendTargetLabels ==
    /\ lb.phase = "call"
    /\ lb' = [lb EXCEPT !.phase = "returned",
                        !.ms = appendTargetLabels(lb.ms, lb.inst, lb.ownerID, port, lb.azMap)]
    /\ UNCHANGED <<cfgVars, pc, pageToken, rs, azLocal, result, request, served, nreq,
                   cycles>>

NextLabels == CallAppendTargetLabels

SpecLabels == InitLabels /\ [][NextLabels]_vars

(***************************************************************************)
(* Properties.                                                             *)
(***************************************************************************)
InGetAZMap == {"checkAZ", "awaitZones"}

\* the caller's getAZMap call of this cycle has returned a mapping
HasAZMap(c) == pc[c] = "buildLabels" \/ (pc[c] = "done" /\ result[c].err = NoError)

Succeeded(c) == pc[c] = "done" /\ result[c].err = NoError

AllZoneIDsEmpty(ms) == \A i \in 1..Len(ms) : ms[i][LAvailabilityZoneID] = EmptyStr

\* C1: once the zone-list fetch has failed, no step issues a zone-list request
\* or changes the cached mapping, which is empty, and every call that returns
\* labels afterwards returns them with an empty availability-zone-id label.
C1_NegativeCaching ==
    [][warnings > 0 =>
          /\ azRequests' = azRequests
          /\ azMap' = azMap
          /\ ~azMap.isNil /\ azMap.m = EmptyMap
          /\ \A c \in Callers : Succeeded(c)' => AllZoneIDsEmpty(result'[c].ms)]_vars

\* a failed zone fetch, and two calls that both returned labels after it:
\* one of them went through getAZMap after the failure
C1_Witness ==
    /\ warnings = 1
    /\ \A c \in {1, 2} : Succeeded(c) /\ Len(result[c].ms) > 0

\* C2: the zone-list request is issued at most once; it is issued under the
\* lock, which one caller holds at a time; while the mapping is unresolved no
\* caller has got one; and every mapping a caller got is the cached one.
C2_SingleResolution ==
    /\ azRequests <= 1
    /\ \A c \in Callers : pc[c] \in InGetAZMap <=> azMapLock = c
    /\ \A c, d \in Callers : (pc[c] \in InGetAZMap /\ pc[d] \in InGetAZMap) => c = d
    /\ azMap.isNil => \A c \in Callers : ~HasAZMap(c)
    /\ \A c \in Callers : HasAZMap(c) => azLocal[c] = azMap.m
    /\ \A c, d \in Callers : (HasAZMap(c) /\ HasAZMap(d)) => azLocal[c] = azLocal[d]

\* one caller waits for the zone list while another is blocked on the lock
C2_Witness ==
    \E c, d \in Callers : c # d /\ pc[c] = "awaitZones" /\ pc[d] = "lockAZ"

(***************************************************************************)
(* What the provider delivered to a call, computed from the pages.         *)
(***************************************************************************)
RECURSIVE PagesReservations(_)
PagesReservations(pages) ==
    IF pages = <<>> THEN <<>>
    ELSE pages[1].ReservationSet.Items \o PagesReservations(Tail(pages))

RECURSIVE AllInstances(_)
AllInstances(rsv) ==
    IF rsv = <<>> THEN <<>>
    ELSE rsv[1].InstanceSet.Items \o AllInstances(Tail(rsv))

HasPrivateIP(inst) == inst.PrivateIPAddress # EmptyStr

\* a reply to the call's last request was a transport error or malformed
FetchFailed(c) == pc[c] # "awaitInstances" /\ nreq[c] > Len(served[c])

\* every request of the call was answered by a page, the last one without token
FetchComplete(c) ==
    /\ Len(served[c]) > 0
    /\ nreq[c] = Len(served[c])
    /\ served[c][Len(served[c])].NextPageToken = EmptyStr

AfterGetReservations == {"lockAZ", "checkAZ", "awaitZones", "buildLabels", "done"}

PortText == [p \in Ports |-> IF p = 80 THEN <<"8", "0">> ELSE <<"9", "1", "0", "0">>]

\* C3: when the request or the parse of a page fails, the call is over: no
\* request is pending or issued after the failed one, getReservations has
\* returned the error with no reservations, and getInstancesLabels has
\* returned that error with no LabelMap.
C3_FailAtomic ==
    \A c \in Callers :
        FetchFailed(c) =>
            /\ pc[c] = "done"
            /\ nreq[c] = Len(served[c]) + 1
            /\ request[c] = NoRequest
            /\ rs[c] = <<>>
            /\ result[c].err \in {"cannot obtain instances", "cannot parse instance list"}
            /\ result[c].ms = <<>>

\* a failure on the third page, after two pages that carried instances with
\* a private IP
C3_Witness ==
    /\ FetchFailed(1)
    /\ Len(served[1]) = 2
    /\ \A i \in 1..2 : \E inst \in {InstA, InstC} :
           \E k \in 1..Len(AllInstances(served[1][i].ReservationSet.Items)) :
               AllInstances(served[1][i].ReservationSet.Items)[k] = inst

\* C4: a call whose pages were all fetched and parsed returns no error and one
\* LabelMap per instance with a private IP, also when the zone-list fetch
\* failed, and then every availability-zone-id label is empty; the only errors
\* a call returns are those of a failed page.
C4_ZoneFailureInvisible ==
    \A c \in Callers :
        /\ (pc[c] = "done" /\ FetchComplete(c)) =>
              /\ result[c].err = NoError
              /\ Len(result[c].ms) =
                     Len(SelectSeq(AllInstances(PagesReservations(served[c])), HasPrivateIP))
              /\ warnings > 0 => AllZoneIDsEmpty(result[c].ms)
        /\ (pc[c] = "done" /\ result[c].err # NoError) => FetchFailed(c)

\* the first call on the config: its zone-list fetch failed, and it returned
\* LabelMaps of instances of both zones
C4_Witness ==
    /\ cycles = 1 /\ warnings = 1 /\ azRequests = 1
    /\ Succeeded(1)
    /\ \E i, j \in 1..Len(result[1].ms) :
          /\ result[1].ms[i][LAvailabilityZone] = ZoneA
          /\ result[1].ms[j][LAvailabilityZone] = ZoneB

\* C5: when the provider has answered n requests with pages, the first n-1
\* with a next-token and the n-th without, getReservations has returned after
\* exactly those n requests, with the reservations of the pages in page order;
\* and it does not return before a page without next-token.
C5_Pagination ==
    \A c \in Callers :
        /\ FetchComplete(c) =>
              /\ pc[c] \in AfterGetReservations
              /\ nreq[c] = Len(served[c])
              /\ rs[c] = PagesReservations(served[c])
              /\ \A i \in 1..(Len(served[c]) - 1) : served[c][i].NextPageToken # EmptyStr
        /\ (pc[c] \in AfterGetReservations /\ ~FetchFailed(c)) => FetchComplete(c)

\* three pages with different contents, the last one without next-token
C5_Witness ==
    /\ Succeeded(1)
    /\ Len(served[1]) = 3
    /\ served[1][1].ReservationSet.Items = <<Res1>>
    /\ served[1][2].ReservationSet.Items = <<Res2, Res3>>
    /\ served[1][3].ReservationSet.Items = <<Res1>>
    /\ rs[1] = <<Res1, Res2, Res3, Res1>>

\* C6: a successful call returns one LabelMap per instance with a private IP,
\* in the instances' order, with address privateIp:port, and none for an
\* instance without one: the output is shorter than the input by the number
\* of instances without a private IP.
C6_PrivateIPEligibility ==
    \A c \in Callers :
        Succeeded(c) =>
            LET insts == AllInstances(rs[c])
                eligible == SelectSeq(insts, HasPrivateIP)
                without == SelectSeq(insts, LAMBDA i : ~HasPrivateIP(i))
                ms == result[c].ms
            IN  /\ Len(ms) = Len(eligible)
                /\ Len(ms) = Len(insts) - Len(without)
                /\ \A i \in 1..Len(ms) :
                      /\ ms[i][LPrivateIP] = eligible[i].PrivateIPAddress
                      /\ ms[i][LPrivateIP] # EmptyStr
                      /\ ms[i][LAddress] =
                             eligible[i].PrivateIPAddress \o <<":">> \o PortText[port]

\* a call that returned LabelMaps for some instances and skipped others
C6_Witness ==
    /\ Succeeded(1)
    /\ Len(result[1].ms) >= 2
    /\ Len(result[1].ms) < Len(AllInstances(rs[1]))
    /\ result[1].ms[1][LAddress] = <<"1", "0", ".", "1", ":", "8", "0">>

(***************************************************************************)
(* What the labels of one instance should be, computed from the instance.  *)
(***************************************************************************)
\* the strings of a list, each preceded by a comma, and a closing comma
RECURSIVE CommaEach(_)
CommaEach(list) ==
    IF list = <<>> THEN <<",">> ELSE <<",">> \o list[1] \o CommaEach(Tail(list))

CommaWrapped(list) == IF list = <<>> THEN <<",", ",">> ELSE CommaEach(list)

RECURSIVE Flatten(_)
Flatten(lists) == IF lists = <<>> THEN <<>> ELSE lists[1] \o Flatten(Tail(lists))

Interfaces(inst) == inst.NetworkInterfaceSet.Items

HasSubnet(ni) == ni.SubnetID # EmptyStr

\* the IPv6 addresses of a sequence of interfaces, interface by interface
IPv6Of(nis) == Flatten([i \in 1..Len(nis) |-> nis[i].IPv6AddressesSet.Items])

\* the non-empty subnet ids at their first occurrence, in order
FirstSubnets(nis) ==
    LET first == SelectSeq([i \in 1..Len(nis) |-> [i |-> i, sn |-> nis[i].SubnetID]],
                           LAMBDA e : /\ e.sn # EmptyStr
                                      /\ \A j \in 1..(e.i - 1) : nis[j].SubnetID # e.sn)
    IN  [k \in 1..Len(first) |-> first[k].sn]

HasPrefix(str, prefix) ==
    Len(str) >= Len(prefix) /\ SubSeq(str, 1, Len(prefix)) = prefix

\* appendTargetLabels has returned the LabelMap of lb.inst
Built == lb.phase = "returned" /\ HasPrivateIP(lb.inst)

BuiltMap == lb.ms[Len(lb.ms)]

\* the label, when the map has it, and no string otherwise
LabelOrNone(m, name) == IF name \in DOMAIN m THEN <<m[name]>> ELSE <<>>

\* C7 as stated: with a VPC id, the IPv6-addresses label is the wrapped list of
\* the addresses of every interface, whatever its subnet id.
C7_AllInterfaces ==
    (Built /\ lb.inst.VPCID # EmptyStr /\ IPv6Of(Interfaces(lb.inst)) # <<>>) =>
        LabelOrNone(BuiltMap, LIPv6Addresses)
            = <<CommaWrapped(IPv6Of(Interfaces(lb.inst)))>>

\* C7 as amended: with a VPC id, the IPv6-addresses label is the wrapped list of
\* the addresses of every interface that has a non-empty subnet id, in
\* interface order and then intra-interface order, duplicates kept.
C7_IPv6Aggregation ==
    LET counted == IPv6Of(SelectSeq(Interfaces(lb.inst), HasSubnet)) IN
    (Built /\ lb.inst.VPCID # EmptyStr /\ counted # <<>>) =>
        LabelOrNone(BuiltMap, LIPv6Addresses) = <<CommaWrapped(counted)>>

\* interfaces with subnets s1, none, s1, each with addresses a, b: the label
\* has the addresses of the first and the third, with the duplicates
C7_Witness ==
    /\ Built /\ lb.inst.VPCID # EmptyStr
    /\ Interfaces(lb.inst) = <<NetworkInterface(Subnet1, <<Addr6A, Addr6B>>),
                               NetworkInterface(EmptyStr, <<Addr6A, Addr6B>>),
                               NetworkInterface(Subnet1, <<Addr6A, Addr6B>>)>>
    /\ BuiltMap[LIPv6Addresses] = <<",", ":", ":", "a", ",", ":", ":", "b",
                                    ",", ":", ":", "a", ",", ":", ":", "b", ",">>

\* C8: with a VPC id, the subnet-id label is the wrapped list of the distinct
\* non-empty subnet ids of the interfaces, in first-occurrence order.
C8_SubnetDedup ==
    (Built /\ lb.inst.VPCID # EmptyStr) =>
        LET subnets == FirstSubnets(Interfaces(lb.inst)) IN
        /\ LabelOrNone(BuiltMap, LSubnetID) = <<CommaWrapped(subnets)>>
        /\ \A i, j \in 1..Len(subnets) : subnets[i] = subnets[j] => i = j
        /\ \A i \in 1..Len(subnets) : subnets[i] # EmptyStr

\* subnets s2, s2, s1 give ,s2,s1,
C8_Witness ==
    /\ Built /\ lb.inst.VPCID # EmptyStr
    /\ Len(Interfaces(lb.inst)) = 3
    /\ Interfaces(lb.inst)[1].SubnetID = Subnet2
    /\ Interfaces(lb.inst)[2].SubnetID = Subnet2
    /\ Interfaces(lb.inst)[3].SubnetID = Subnet1
    /\ BuiltMap[LSubnetID] = <<",", "s", "2", ",", "s", "1", ",">>

\* C9: the map has the subnet-id label exactly when the VPC id is non-empty,
\* with value ,, when no interface has a non-empty subnet id; it has the
\* IPv6-addresses label only when the VPC id is non-empty and an address was
\* collected; without a VPC id it has neither.
C9_ListLabelEmission ==
    Built =>
        LET nis == Interfaces(lb.inst)
            m == BuiltMap
        IN  /\ LSubnetID \in DOMAIN m <=> lb.inst.VPCID # EmptyStr
            /\ (lb.inst.VPCID # EmptyStr /\ \A i \in 1..Len(nis) : ~HasSubnet(nis[i]))
                   => m[LSubnetID] = <<",", ",">>
            /\ LIPv6Addresses \in DOMAIN m
                   => /\ lb.inst.VPCID # EmptyStr
                      /\ IPv6Of(SelectSeq(nis, HasSubnet)) # <<>>
            /\ lb.inst.VPCID = EmptyStr
                   => (LSubnetID \notin DOMAIN m /\ LIPv6Addresses \notin DOMAIN m)

\* a VPC id and interfaces, none with a subnet id: the subnet-id label is ,,
C9_Witness ==
    /\ Built /\ lb.inst.VPCID # EmptyStr
    /\ Len(Interfaces(lb.inst)) = 2
    /\ BuiltMap[LSubnetID] = <<",", ",">>
    /\ LIPv6Addresses \notin DOMAIN BuiltMap

\* the tags that produce a label
LabelTags(inst) ==
    SelectSeq(inst.TagSet.Items, LAMBDA t : t.Key # EmptyStr /\ t.Value # EmptyStr)

TagLabelName(t) == LTagPrefix \o SanitizeLabelName(t.Key)

\* C10: every label with the tag prefix is that of a tag with a non-empty key
\* and a non-empty value; every such tag has its label, named by the prefix and
\* the sanitized key; and the label's value is the value of the last such tag
\* with that sanitized key.
C10_TagLabels ==
    Built =>
        LET tags == LabelTags(lb.inst)
            m == BuiltMap
        IN  /\ \A n \in DOMAIN m :
                  HasPrefix(n, LTagPrefix) =>
                      \E i \in 1..Len(tags) : n = TagLabelName(tags[i])
            /\ \A i \in 1..Len(tags) :
                  /\ TagLabelName(tags[i]) \in DOMAIN m
                  /\ (\A j \in (i + 1)..Len(tags) :
                          TagLabelName(tags[j]) # TagLabelName(tags[i]))
                         => m[TagLabelName(tags[i])] = tags[i].Value

\* keys a-b and a.b collide on a_b, and the second value is the label's
C10_Witness ==
    /\ Built
    /\ lb.inst.TagSet.Items = <<Tag(<<"a", "-", "b">>, <<"v">>),
                                Tag(<<"a", ".", "b">>, <<"w">>)>>
    /\ BuiltMap[LTagPrefix \o <<"a", "_", "b">>] = <<"w">>

\* what each of the sixteen fixed metadata labels should be for an instance
ExpectedFixed(inst, ownerID, zoneID) ==
    <<<<LArchitecture, inst.Architecture>>,
      <<LAmi, inst.ImageID>>,
      <<LAvailabilityZone, inst.Placement.AvailabilityZone>>,
      <<LAvailabilityZoneID, zoneID>>,
      <<LInstanceID, inst.ID>>,
      <<LInstanceLifecycle, inst.Lifecycle>>,
      <<LInstanceState, inst.State.Name>>,
      <<LInstanceType, inst.Type>>,
      <<LOwnerID, ownerID>>,
      <<LPlatform, inst.Platform>>,
      <<LPrimarySubnetID, inst.SubnetID>>,
      <<LPrivateDNSName, inst.PrivateDNSName>>,
      <<LPrivateIP, inst.PrivateIPAddress>>,
      <<LPublicDNSName, inst.PublicDNSName>>,
      <<LPublicIP, inst.PublicIPAddress>>,
      <<LVPCID, inst.VPCID>>>>

ZoneIDIn(azm, inst) ==
    IF inst.Placement.AvailabilityZone \in DOMAIN azm
    THEN azm[inst.Placement.AvailabilityZone] ELSE EmptyStr

\* C11: a LabelMap has a non-empty address label and each of the sixteen fixed
\* metadata labels, with the instance's value also when that is the empty
\* string, whatever the instance's tags are.
C11_FixedLabels ==
    Built =>
        LET m == BuiltMap
            want == ExpectedFixed(lb.inst, lb.ownerID, ZoneIDIn(lb.azMap, lb.inst))
        IN  /\ LAddress \in DOMAIN m /\ m[LAddress] # EmptyStr
            /\ Len(want) = 16
            /\ \A i \in 1..16 : want[i][1] \in DOMAIN m /\ m[want[i][1]] = want[i][2]
            /\ \A i, j \in 1..16 : want[i][1] = want[j][1] => i = j

\* a tag with key vpc_id on an instance without VPC id: the VPC-id label is
\* there and empty, beside the tag's label
C11_Witness ==
    /\ Built
    /\ lb.inst.VPCID = EmptyStr
    /\ lb.inst.TagSet.Items = <<Tag(<<"v", "p", "c", "_", "i", "d">>, <<"w">>)>>
    /\ BuiltMap[LVPCID] = EmptyStr
    /\ BuiltMap[LPublicIP] = EmptyStr
    /\ BuiltMap[LTagPrefix \o <<"v", "p", "c", "_", "i", "d">>] = <<"w">>

\* the name-to-id mapping a zone list stands for: a name's last entry decides
ZoneMapOf(zones) ==
    [n \in {zones[i].ZoneName : i \in 1..Len(zones)} |->
        LET last == CHOOSE i \in 1..Len(zones) :
                        /\ zones[i].ZoneName = n
                        /\ \A j \in (i + 1)..Len(zones) : zones[j].ZoneName # n
        IN  zones[last].ZoneID]

\* C12 as stated: once the cache is resolved, every zone-list response that
\* carried a continuation token has been followed by a further request.
C12_PaginatedZoneFetch ==
    ~azMap.isNil =>
        \A i \in 1..Len(zonesServed) :
            zonesServed[i].nextToken # EmptyStr => azRequests > i

\* C12, amended: the resolver issues one zone-list request, with the empty
\* token, and none after it; the cached mapping is that of the zones of this
\* one response, whether or not the response carried a continuation token.
C12_SingleZoneRequest ==
    /\ azRequests <= 1
    /\ Len(zonesServed) <= azRequests
    /\ \A c \in Callers :
         request[c].Action = "DescribeAvailabilityZones" =>
             /\ request[c].NextToken = EmptyStr
             /\ azMap.isNil
    /\ ~azMap.isNil =>
         azMap.m = IF zonesServed = <<>> THEN EmptyMap
                   ELSE ZoneMapOf(zonesServed[1].zones)

\* the one response named two zones and carried a token; the call has returned
C12_Witness ==
    /\ ~azMap.isNil
    /\ azRequests = 1
    /\ Len(zonesServed) = 1
    /\ zonesServed[1].nextToken = Tok1
    /\ Len(zonesServed[1].zones) = 2
    /\ azMap.m = (ZoneA :> ZoneIDA) @@ (ZoneB :> ZoneIDB)
    /\ Succeeded(1)

\* the next-token of the last page delivered in c's call, empty before any
LastToken(c) ==
    IF served[c] = <<>> THEN EmptyStr
    ELSE served[c][Len(served[c])].NextPageToken

\* C13: a DescribeInstances request is pending only while its caller waits for
\* it, one at a time: it is the request after the pages delivered so far and
\* carries the next-token of the last of them, the empty token when there is
\* none; every page that was followed by a request carried a non-empty token.
C13_TokenChaining ==
    \A c \in Callers :
        /\ request[c].Action = "DescribeInstances" <=> pc[c] = "awaitInstances"
        /\ pc[c] = "awaitInstances" =>
             /\ nreq[c] = Len(served[c]) + 1
             /\ request[c].NextToken = LastToken(c)
        /\ pc[c] = "getReservations" =>
             /\ nreq[c] = Len(served[c])
             /\ pageToken[c] = LastToken(c)
        /\ nreq[c] \in {Len(served[c]), Len(served[c]) + 1}
        /\ \A i \in 1..Len(served[c]) :
             i < nreq[c] => served[c][i].NextPageToken # EmptyStr

\* the third request: the first page carried tok1, the second tok2
C13_Witness ==
    /\ pc[1] = "awaitInstances"
    /\ Len(served[1]) = 2
    /\ served[1][1].NextPageToken = Tok1
    /\ served[1][2].NextPageToken = Tok2
    /\ request[1] = [Action |-> "DescribeInstances", NextToken |-> Tok2]

\* C14: when a getAZMap call has returned the cache is Resolved, and a step
\* taken with a Resolved cache leaves it Resolved with the same entries.
C14_ResolvedIsTerminal ==
    [][/\ ~azMap.isNil => azMap' = azMap
       /\ \A c \in Callers : HasAZMap(c)' => ~azMap'.isNil]_vars

\* a later getAZMap call holds the lock on a cache resolved with two zones,
\* after a call that returned labels
C14_Witness ==
    /\ ~azMap.isNil
    /\ azMap.m = (ZoneA :> ZoneIDA) @@ (ZoneB :> ZoneIDB)
    /\ \E c, d \in Callers : pc[c] = "checkAZ" /\ Succeeded(d)

OutsideGetAZMap ==
    {"idle", "getReservations", "awaitInstances", "lockAZ", "buildLabels", "done"}

\* C15: the lock is held by a caller only between the Lock of getAZMap and its
\* return, the wait for the zone-list reply included; a caller that requests
\* pages, waits for one or builds labels does not hold it, so a caller at Lock
\* can take the lock whenever no caller is inside getAZMap.
C15_LockScope ==
    /\ azMapLock \in Callers \cup {0}
    /\ \A c \in Callers :
         /\ pc[c] \in OutsideGetAZMap => azMapLock # c
         /\ azMapLock = c => pc[c] \in InGetAZMap
         /\ (pc[c] = "lockAZ" /\ \A d \in Callers : pc[d] \notin InGetAZMap)
                => ENABLED Lock(c)
    /\ \A c \in Callers :
         pc[c] = "awaitZones" =>
             azMapLock = c /\ request[c].Action = "DescribeAvailabilityZones"

\* one caller waits for a page of instances while another, which will go on
\* to build labels, holds the lock and waits for the zone list
C15_Witness ==
    \E c, d \in Callers :
        /\ pc[c] = "awaitInstances"
        /\ pc[d] = "awaitZones"
        /\ azMapLock = d

\* the one zone-list request was answered by a well-formed zone list
ZoneFetchSucceeded == ~azMap.isNil /\ zonesServed # <<>>

\* C16: after a successful zone fetch the cache maps the names of the zone
\* list to their ids, and every LabelMap of a call that returns labels has the
\* availability-zone-id label: the cached id of the instance's zone name, and
\* the empty string when the name is not cached.
C16_ZoneIDLookup ==
    ZoneFetchSucceeded =>
        /\ azMap.m = ZoneMapOf(zonesServed[1].zones)
        /\ \A c \in Callers :
             Succeeded(c) =>
                 LET eligible == SelectSeq(AllInstances(rs[c]), HasPrivateIP)
                     ms == result[c].ms
                 IN  /\ Len(ms) = Len(eligible)
                     /\ \A i \in 1..Len(ms) :
                          LET zone == eligible[i].Placement.AvailabilityZone IN
                          /\ LAvailabilityZoneID \in DOMAIN ms[i]
                          /\ ms[i][LAvailabilityZone] = zone
                          /\ zone \in DOMAIN azMap.m =>
                                 ms[i][LAvailabilityZoneID] = azMap.m[zone]
                          /\ zone \notin DOMAIN azMap.m =>
                                 ms[i][LAvailabilityZoneID] = EmptyStr

\* the zone list named only zone za: the instance in za gets its id and the
\* instance in zb the empty string
C16_Witness ==
    /\ ZoneFetchSucceeded
    /\ DOMAIN azMap.m = {ZoneA}
    /\ Succeeded(1)
    /\ \E i, j \in 1..Len(result[1].ms) :
         /\ result[1].ms[i][LAvailabilityZone] = ZoneA
         /\ result[1].ms[i][LAvailabilityZoneID] = ZoneIDA
         /\ result[1].ms[j][LAvailabilityZone] = ZoneB
         /\ result[1].ms[j][LAvailabilityZoneID] = EmptyStr

BeforeGetAZMap == {"idle", "getReservations", "awaitInstances", "done"}

ZoneCache == <<azMap, azMapLock, azRequests, zonesServed, warnings>>

\* C17: a step of a caller that has not reached getAZMap in its call leaves
\* the zone cache, the lock and the count of zone-list requests as they are,
\* and it reaches getAZMap only when every page of the call was delivered and
\* the last had no token; a call whose fetch failed ends there, without
\* getAZMap. So whatever changes the cache, the lock or the count is a step of
\* a caller whose enumeration succeeded.
C17_NoZoneWorkOnFailure ==
    [][/\ \A c \in Callers :
            (pc[c] \in BeforeGetAZMap /\ pc'[c] # pc[c]) =>
                /\ ZoneCache' = ZoneCache
                /\ pc'[c] \in BeforeGetAZMap \cup {"lockAZ"}
                /\ pc'[c] = "lockAZ" => FetchComplete(c)'
                /\ FetchFailed(c)' => pc'[c] = "done" /\ result'[c].err # NoError
       /\ ZoneCache' # ZoneCache =>
            \E c \in Callers :
                /\ pc[c] \in {"lockAZ", "checkAZ", "awaitZones"}
                /\ pc'[c] # pc[c]
                /\ FetchComplete(c)]_vars

\* the first call failed and left the cache Unresolved; the second call got
\* all its pages and has issued the one zone-list request
C17_Witness ==
    /\ cycles = 2
    /\ pc[1] = "awaitZones"
    /\ azRequests = 1
    /\ azMap.isNil
    /\ zonesServed = <<>>
    /\ warnings = 0
    /\ FetchComplete(1)

\* C18: the lock is never held without a caller inside getAZMap; each way
\* out of getAZMap (cache hit, populate after a successful or a failed fetch)
\* leaves the lock free; and a caller that waits for the lock eventually has
\* the mapping in hand.
C18_LockReleased ==
    /\ [](\A c \in Callers : azMapLock = c => pc[c] \in InGetAZMap)
    /\ [][\A c \in Callers :
            (pc[c] \in InGetAZMap /\ pc'[c] \notin InGetAZMap) =>
                /\ azMapLock = c
                /\ azMapLock' = 0
                /\ pc'[c] = "buildLabels"
                /\ ~azMap'.isNil]_vars
    /\ \A c \in Callers : (pc[c] = "lockAZ") ~> (pc[c] = "buildLabels")

\* a caller waits for the lock held by another caller, after a zone fetch
\* that failed
C18_Witness ==
    \E c, d \in Callers :
        /\ pc[c] = "lockAZ"
        /\ pc[d] = "checkAZ"
        /\ azMapLock = d
        /\ warnings = 1
        /\ azMap = [isNil |-> FALSE, m |-> EmptyMap]

\* the instances of a list of reservations, each with its reservation's owner
\* id, in reservation order and instance order within a reservation
RECURSIVE OwnedInstances(_)
OwnedInstances(rsv) ==
    IF rsv = <<>> THEN <<>>
    ELSE [j \in 1..Len(rsv[1].InstanceSet.Items) |->
             [inst |-> rsv[1].InstanceSet.Items[j], owner |-> rsv[1].OwnerID]]
         \o OwnedInstances(Tail(rsv))

\* C19: the LabelMaps of a call that returns labels are those of the
\* instances with a private IP of the delivered pages, in page, reservation
\* and instance order, and the owner-id label of each is the owner id of the
\* reservation its instance is in.
C19_OrderAndOwner ==
    \A c \in Callers :
        Succeeded(c) =>
            LET owned == OwnedInstances(PagesReservations(served[c]))
                eligible == SelectSeq(owned, LAMBDA o : HasPrivateIP(o.inst))
                ms == result[c].ms
            IN  /\ Len(ms) = Len(eligible)
                /\ \A i \in 1..Len(ms) :
                     /\ ms[i][LOwnerID] = eligible[i].owner
                     /\ ms[i][LPrivateIP] = eligible[i].inst.PrivateIPAddress
                     /\ ms[i][LAvailabilityZone] =
                            eligible[i].inst.Placement.AvailabilityZone
                     /\ ms[i][LInstanceID] = eligible[i].inst.ID

\* two pages, three reservations of two owners, five instances of which two
\* have no private IP: the same instance is returned once for each owner
C19_Witness ==
    /\ Succeeded(1)
    /\ Len(served[1]) = 2
    /\ served[1][1].ReservationSet.Items = <<Res1>>
    /\ served[1][2].ReservationSet.Items = <<Res2, Res3>>
    /\ Len(result[1].ms) = 3
    /\ result[1].ms[1][LOwnerID] = Owner1 /\ result[1].ms[1][LPrivateIP] = IP1
    /\ result[1].ms[2][LOwnerID] = Owner2 /\ result[1].ms[2][LPrivateIP] = IP2
    /\ result[1].ms[3][LOwnerID] = Owner2 /\ result[1].ms[3][LPrivateIP] = IP1

====
